---- MODULE Spec2Model ----
(***************************************************************************)
(* A model of teloc's containers (src/teloc/src/container.rs) and of the   *)
(* actix-web bridge (src/teloc/src/actix_support.rs).                      *)
(*                                                                         *)
(* Part I   : values, the registry of the tests, the containers.           *)
(* Part II  : threads resolving from a shared root registry and from       *)
(*            per-request forks of it (specification Spec).                *)
(* Part III : the life cycle of SpFuture (specification OwnerSpec).        *)
(***************************************************************************)
EXTENDS Naturals, Sequences, FiniteSets, TLC

\* ------------------------------------------------------------------ bounds
NumThreads == 2

Threads == 1..NumThreads
\* registry ids: 0 is the root ServiceProvider, t is the fork made by thread t
Root == 0
RegIds == {Root} \cup Threads

None == [tag |-> "none"]

\* ------------------------------------------------------------------ values
\* An owned value: the object built by one constructor call (or one clone).
Obj(id, ty, fields) == [tag |-> "obj", id |-> id, ty |-> ty, fields |-> fields]
\* A shared reference: names the storage it points into.
Ref(loc) == [tag |-> "ref", loc |-> loc]
\* What a value holds, whatever storage it lives in.
Content(v) == IF v.tag = "obj" THEN [ty |-> v.ty, fields |-> v.fields] ELSE v

\* DependencyClone::clone(): a new object with the same content.
Clone(v, id) == IF v.tag = "obj" THEN [v EXCEPT !.id = id] ELSE v

\* T: Into<U> of ConvertContainer: the adapter U built around the T it was given.
IntoBug(v) == v
Into(v) == [tag |-> "conv", ty |-> "Iface", of |-> v]

\* ------------------------------------------------------------------ registry
\* The types registered in the root registry, after the tests of the crate:
\*   ConstService  add_instance(ConstService { data: 10, data2: 8 })
\*   Settings      add_instance(..), the type a scope factory registers again
\*   ControllerA   add_singleton::<ControllerA>()          (service: &ConstService)
\*   ControllerF   add_singleton_factory(|deps| ..)        (deps: &ControllerA)
\*   ControllerB   add_transient::<ControllerB>()          (#[init(1, 5)])
\*   SchemaB       add_transient_factory(|deps| SchemaB{b}) (deps: ControllerB)
\*   Iface         a ConvertContainer around a SingletonContainer<Impl>
RootTypes == {"ConstService", "Settings", "ControllerA", "ControllerF", "ControllerB", "SchemaB", "Iface"}
\* the per-request leaf call() seeds every fork with
LocalTypes == {"HttpRequest"}
\* the type a scope factory may register again in its fork
ShadowTypes == {"Settings"}
\* the types whose container holds a OnceCell
CellTypes == {"ControllerA", "ControllerF", "Impl"}
InstTypes == {"ConstService", "Settings", "HttpRequest"}

Kind(ty) ==
    CASE ty \in InstTypes -> "instance"
      [] ty \in {"ControllerA", "Impl"} -> "singleton"
      [] ty = "ControllerF" -> "singleton_factory"
      [] ty = "ControllerB" -> "transient"
      [] ty = "SchemaB" -> "transient_factory"
      [] ty = "Iface" -> "convert"

Dep(ty, mode) == [ty |-> ty, mode |-> mode]

\* The dependency list of each type (Dependency<Deps> / the factory's argument).
\* (DepsOfCyclic: ControllerA and ControllerF declared to need each other)
DepsOfCyclic(ty) ==
    CASE ty \in {"Impl", "Iface"} -> <<Dep("ConstService", "ref")>>
      [] ty = "ControllerA" -> <<Dep("ControllerF", "ref")>>
      [] ty = "ControllerF" -> <<Dep("ControllerA", "ref")>>
      [] ty = "SchemaB" -> <<Dep("ControllerB", "val")>>
      [] OTHER -> <<>>

DepsOf(ty) ==
    CASE ty \in {"ControllerA", "Impl", "Iface"} -> <<Dep("ConstService", "ref")>>
      [] ty = "ControllerF" -> <<Dep("ControllerA", "ref")>>
      [] ty = "SchemaB" -> <<Dep("ControllerB", "val")>>
      [] OTHER -> <<>>

\* The container a ConvertContainer owns (field 0).
InnerOf(ty) == "Impl"

\* The data of the instances a registry can be given.
RootData == {1}
ShadowData == {3}
Requests == {"GET /a"}

\* The programs around the registry: what their threads ask resolve() for (the
\* dependencies of a type are resolved whatever the program asks for), and, for the
\* one that serves requests, through the forks of its handler calls too.
\*   the singleton tests, the transient test, a converted singleton, a handler
\*   reading its request and the settings, a handler using a root singleton.
Workloads ==
    { {"ConstService", "ControllerA", "ControllerF"},
      {"ControllerB", "SchemaB"},
      {"Iface"},
      {"HttpRequest", "Settings"},
      {"HttpRequest", "ControllerA"} }

\* Dependency::init of the derived types; ControllerB is #[init(1, 5)].
InitFields(ty, deps) == IF ty = "ControllerB" THEN <<1, 5>> ELSE deps

\* The bodies given to add_singleton_factory / add_transient_factory: they pluck the
\* one dependency and build the struct around it.
BodyBug(ty, deps) == <<>>
BodyFields(ty, deps) == <<deps[1]>>

\* ------------------------------------------------------------------ state
VARIABLES
    workload,   \* the types the callers of this run ask resolve() for
    provided,   \* provided[r]: the types registry r has a provider of its own for
    instance,   \* instance[<<r, ty>>]: the value held by r's InstanceContainer<ty>
    cell,       \* cell[ty]: the OnceCell of the root's singleton container of ty
    scope,      \* scope[t]: the fork thread t's handler call made, if any
    stack,      \* stack[t]: the resolve_container calls thread t is inside of
    ret,        \* ret[t]: what thread t's last resolve() returned
    nobj,       \* nobj[t]: the objects thread t has created in its resolve() call
    heap,       \* heap[id]: how often the owned object id was changed by its holder
    touched,    \* touched[t]: how often thread t changed the value it holds
    ctor,       \* ctor[ty]: executions of the constructor (T::init or the body) of cell ty
    getdeps,    \* getdeps[ty]: invocations of the get_deps thunk by cell ty's closure
    owner       \* owner[t]: the SpFuture of task t's handler call and its two allocations

regVars == <<workload, provided, instance, cell, scope, stack, ret, nobj, heap, touched, ctor, getdeps>>
vars == <<regVars, owner>>

AllTypes == RootTypes \cup LocalTypes \cup {"Impl"}

\* ------------------------------------------------------------------ registry operations
\* The registry state an operation works on.
Reg(p, i) == [prov |-> p, inst |-> i]

\* ServiceProvider::_add / add_instance: registry r gets an InstanceContainer of ty.
Add(st, r, ty, obj) ==
    Reg([st.prov EXCEPT ![r] = @ \cup {ty}], [st.inst EXCEPT ![<<r, ty>>] = obj])

\* ServiceProvider::fork_arc: a new, empty layer in front of the shared parent. The
\* handle of the layer thread t makes is t.
ForkArc(st, t) == [st |-> Reg([st.prov EXCEPT ![t] = {}], st.inst), handle |-> t]

\* call(): self.sp.fork_arc()._add::<HttpRequestContainer>(req)
ForkAndSeedBug(st, t, req) ==
    [st |-> Add(st, Root, "HttpRequest", Obj(<<0, 2 * t + 1>>, "HttpRequest", <<req>>)), handle |-> Root]
ForkAndSeed(st, t, req) ==
    LET f == ForkArc(st, t)
    IN  [st |-> Add(f.st, f.handle, "HttpRequest", Obj(<<0, 2 * t + 1>>, "HttpRequest", <<req>>)),
         handle |-> f.handle]

\* (self.scope_factory)(forked): the factory of the user either returns the fork as
\* it is or registers its own Settings in it.
ScopeFactory(f, t, data) ==
    IF data = 0 THEN f
    ELSE [f EXCEPT !.st = Add(f.st, f.handle, "Settings",
                              Obj(<<0, 2 * t + 2>>, "Settings", <<data>>))]

\* SelectContainer::get: the registry whose container answers for ty when asked
\* through r: a provider of the fork shadows the parent's.
Lookup(r, ty) == IF ty \in provided[r] THEN r ELSE Root

\* The types resolve() can be asked for through registry r.
Resolvable(r) == provided[r] \cup provided[Root]

\* By reference (&T) or by value (T), as the Resolver impls allow: by value for
\* what is built per call, either way for what is stored and is DependencyClone
\* (of the instances, ConstService is).
Modes(ty) ==
    CASE Kind(ty) \in {"transient", "transient_factory", "convert"} -> {"val"}
      [] ty \in {"Settings", "HttpRequest"} -> {"ref"}
      [] OTHER -> {"ref", "val"}

\* ------------------------------------------------------------------ frames
Frame(r, ty, mode) ==
    [r |-> r, ty |-> ty, mode |-> mode, pc |-> "start", args |-> <<>>, nDeps |-> 0, nCtor |-> 0]

Top(t) == stack[t][Len(stack[t])]
Below(t) == SubSeq(stack[t], 1, Len(stack[t]) - 1)
Busy(t) == stack[t] # <<>>
FreshId(t) == <<t, nobj[t] + 1>>

\* The storage of the value a container of ty, found through r, hands out.
InstLoc(r, ty) == <<"inst", Lookup(r, ty), ty>>
CellLoc(ty) == <<"cell", Root, ty>>

Deref(v) ==
    IF v.tag # "ref" THEN v
    ELSE IF v.loc[1] = "inst" THEN instance[<<v.loc[2], v.loc[3]>>] ELSE cell[v.loc[3]].slot

\* The frame fr, changed to fr2, returns v: to the frame below it, or to the caller
\* of resolve().
Return(t, fr, v) ==
    IF Below(t) = <<>>
    THEN /\ stack' = [stack EXCEPT ![t] = <<>>]
         /\ ret' = [ret EXCEPT ![t] = [tag |-> "ret", r |-> fr.r, ty |-> fr.ty, mode |-> fr.mode,
                                       val |-> v, nDeps |-> fr.nDeps, nCtor |-> fr.nCtor]]
         /\ heap' = IF v.tag = "obj" /\ v.id \notin DOMAIN heap THEN heap @@ (v.id :> 0) ELSE heap
    ELSE LET par == Below(t)[Len(Below(t))]
             fwd == Kind(par.ty) = "convert"
             par2 == [par EXCEPT !.args = Append(@, v),
                                 !.nDeps = IF fwd THEN @ + fr.nDeps ELSE @,
                                 !.nCtor = IF fwd THEN @ + fr.nCtor ELSE @]
         IN  /\ stack' = [stack EXCEPT ![t] = Append(SubSeq(Below(t), 1, Len(Below(t)) - 1), par2)]
             /\ UNCHANGED <<ret, heap>>

\* The frame on top becomes fr2 and calls resolve() for its next dependency.
PushDep(t, fr2) ==
    LET d == DepsOf(fr2.ty)[Len(fr2.args) + 1]
    IN  stack' = [stack EXCEPT ![t] = Append(Append(Below(t), fr2), Frame(fr2.r, d.ty, d.mode))]

\* ------------------------------------------------------------------ SpFuture
\* The SpFuture of one handler call, with the two heap allocations it points to.
\*   pc      where the call, the host or PinnedDrop::drop stands
\*   sp      the Box<ScopeResult> behind the raw pointer `sp`
\*   fut     the leaked Box<Fut> of the computation
\*   futPtr  the field `fut`: NonNull::dangling() until new() has stored the pointer
\*   polled  how far the host has driven the computation
\*   borrows whether the computation holds references into the registry
\*   made    whether SpFuture::new returned the owner to the host
\*   spDrops, spFrees, futDrops, futFrees: destructor runs and deallocations so far
\*   uaf     whether the registry was used after its destruction
NoOwner ==
    [pc |-> "idle", sp |-> "none", fut |-> "none", futPtr |-> "none", polled |-> "no",
     borrows |-> FALSE, made |-> FALSE, step |-> 0,
     spDrops |-> 0, spFrees |-> 0, futDrops |-> 0, futFrees |-> 0, uaf |-> FALSE]

\* ------------------------------------------------------------------ Init
EmptyCell == [state |-> "incomplete", slot |-> None]

Init ==
    /\ workload \in Workloads
    /\ provided = [r \in RegIds |-> IF r = Root THEN RootTypes ELSE {}]
    /\ \E d \in RootData :
         instance = [k \in RegIds \X InstTypes |->
                       CASE k = <<Root, "ConstService">> -> Obj(<<0, 1>>, "ConstService", <<10, 8>>)
                         [] k = <<Root, "Settings">> -> Obj(<<0, 2>>, "Settings", <<d>>)
                         [] OTHER -> None]
    /\ cell = [ty \in CellTypes |-> EmptyCell]
    /\ scope = [t \in Threads |-> [live |-> FALSE, reg |-> t]]
    /\ stack = [t \in Threads |-> <<>>]
    /\ ret = [t \in Threads |-> None]
    /\ nobj = [t \in Threads |-> 0]
    /\ heap = <<>>
    /\ touched = [t \in Threads |-> 0]
    /\ ctor = [ty \in CellTypes |-> 0]
    /\ getdeps = [ty \in CellTypes |-> 0]
    /\ owner = [t \in Threads |-> NoOwner]

\* ------------------------------------------------------------------ the handler's fork
\* Factory::call, lines 170-172: the fork of the shared root, seeded with the request
\* and handed to the scope factory.
Fork(t) ==
    /\ "HttpRequest" \in workload
    /\ ~Busy(t)
    /\ ~scope[t].live
    /\ \E req \in Requests, data \in {0} \cup ShadowData :
         LET f == ScopeFactory(ForkAndSeed(Reg(provided, instance), t, req), t, data)
         IN  /\ provided' = f.st.prov
             /\ instance' = f.st.inst
             /\ scope' = [scope EXCEPT ![t] = [live |-> TRUE, reg |-> f.handle]]
    /\ UNCHANGED <<cell, stack, ret, nobj, heap, touched, ctor, getdeps, owner, workload>>

\* The fork is dropped: what was resolved through it went before it.
DropScope(t) ==
    /\ ~Busy(t)
    /\ scope[t].live
    /\ scope[t].reg # Root
    /\ provided' = [provided EXCEPT ![scope[t].reg] = {}]
    /\ instance' = [k \in RegIds \X InstTypes |-> IF k[1] = scope[t].reg THEN None ELSE instance[k]]
    /\ scope' = [scope EXCEPT ![t] = [live |-> FALSE, reg |-> t]]
    /\ ret' = [ret EXCEPT ![t] = None]
    /\ heap' = [id \in {i \in DOMAIN heap : ret[t] = None \/ ret[t].val.tag # "obj" \/ i # ret[t].val.id} |-> heap[id]]
    /\ UNCHANGED <<cell, stack, nobj, touched, ctor, getdeps, owner, workload>>

\* ------------------------------------------------------------------ resolve()
\* The registries thread t can call resolve() on: the shared root and its own fork.
Reachable(t) == {Root} \cup (IF scope[t].live THEN {scope[t].reg} ELSE {})

\* Resolver::resolve is entered: the value of the call before is dropped.
Begin(t) ==
    /\ ~Busy(t)
    /\ \E r \in Reachable(t) : \E ty \in Resolvable(r) \cap workload : \E mode \in Modes(ty) :
         stack' = [stack EXCEPT ![t] = <<Frame(r, ty, mode)>>]
    /\ nobj' = [nobj EXCEPT ![t] = 0]
    /\ ret' = [ret EXCEPT ![t] = None]
    /\ touched' = [touched EXCEPT ![t] = 0]
    /\ heap' = [id \in {i \in DOMAIN heap : ret[t] = None \/ ret[t].val.tag # "obj" \/ i # ret[t].val.id} |-> heap[id]]
    /\ UNCHANGED <<provided, instance, cell, scope, ctor, getdeps, owner, workload>>

\* What a resolve() of mode `mode` makes of the reference the container returned:
\* the reference itself, or .clone() of what it points to.
ByMode(t, mode, ref) == IF mode = "ref" THEN ref ELSE Clone(Deref(ref), FreshId(t))
Cloned(t, mode) == [nobj EXCEPT ![t] = IF mode = "ref" THEN @ ELSE @ + 1]

\* InstanceContainer::resolve_container: &self.0, and no call of the thunk.
InstanceResult(r, ty) == Ref(InstLoc(r, ty))

\* (as a container that builds its value per call would: the thunk is invoked and
\* a new value handed out)
ResolveInstanceRebuilt(t) ==
    /\ Busy(t)
    /\ Kind(Top(t).ty) = "instance"
    /\ Return(t, [Top(t) EXCEPT !.nDeps = @ + 1],
              Clone(Deref(InstanceResult(Top(t).r, Top(t).ty)), FreshId(t)))
    /\ nobj' = [nobj EXCEPT ![t] = @ + 1]
    /\ UNCHANGED <<provided, instance, cell, scope, touched, ctor, getdeps, owner, workload>>

ResolveInstance(t) ==
    /\ Busy(t)
    /\ Kind(Top(t).ty) = "instance"
    /\ Return(t, Top(t), ByMode(t, Top(t).mode, InstanceResult(Top(t).r, Top(t).ty)))
    /\ nobj' = Cloned(t, Top(t).mode)
    /\ UNCHANGED <<provided, instance, cell, scope, touched, ctor, getdeps, owner, workload>>

\* The value a constructor call of thread t builds for ty from deps.
\* (as a container that hands out one shared value would)
ConstructShared(t, ty, deps) ==
    Obj(<<0, 0>>, ty,
        IF Kind(ty) \in {"transient_factory", "singleton_factory"}
        THEN BodyFields(ty, deps) ELSE InitFields(ty, deps))

Construct(t, ty, deps) ==
    Obj(FreshId(t), ty,
        IF Kind(ty) \in {"transient_factory", "singleton_factory"}
        THEN BodyFields(ty, deps) ELSE InitFields(ty, deps))

\* TransientContainer / TransientFactoryContainer::resolve_container:
\* T::init(get_deps()) and self.2(get_deps()).
\* The thunk is invoked: it resolves the dependencies left to right ...
Invoked(fr) == [fr EXCEPT !.pc = "deps", !.nDeps = IF fr.pc = "start" THEN @ + 1 ELSE @]

TransientDep(t) ==
    /\ Busy(t)
    /\ Kind(Top(t).ty) \in {"transient", "transient_factory"}
    /\ Top(t).pc \in {"start", "deps"}
    /\ Len(Top(t).args) < Len(DepsOf(Top(t).ty))
    /\ PushDep(t, Invoked(Top(t)))
    /\ UNCHANGED <<provided, instance, cell, scope, ret, nobj, heap, touched, ctor, getdeps, owner, workload>>

\* ... and the constructor is called with them; its value is returned.
TransientConstruct(t) ==
    /\ Busy(t)
    /\ Kind(Top(t).ty) \in {"transient", "transient_factory"}
    /\ Top(t).pc \in {"start", "deps"}
    /\ Len(Top(t).args) = Len(DepsOf(Top(t).ty))
    /\ Return(t, [Invoked(Top(t)) EXCEPT !.nCtor = @ + 1], Construct(t, Top(t).ty, Top(t).args))
    /\ nobj' = [nobj EXCEPT ![t] = @ + 1]
    /\ UNCHANGED <<provided, instance, cell, scope, touched, ctor, getdeps, owner, workload>>

\* Singleton(Factory)Container::resolve_container: OnceCell::get_or_init.
\* The cell is complete: its value is returned and the closure is not called.
\* A cell another thread is initializing blocks the caller until it is complete.
CanRead(c) == c.state = "complete"

SingletonGet(t) ==
    /\ Busy(t)
    /\ Kind(Top(t).ty) \in {"singleton", "singleton_factory"}
    /\ Top(t).pc = "start"
    /\ CanRead(cell[Top(t).ty])
    /\ Return(t, Top(t), ByMode(t, Top(t).mode, Ref(CellLoc(Top(t).ty))))
    /\ nobj' = Cloned(t, Top(t).mode)
    /\ UNCHANGED <<provided, instance, cell, scope, touched, ctor, getdeps, owner, workload>>

\* The cell is empty: this caller becomes its initializer and runs the closure,
\* which invokes the thunk.
CanClaimBug(c) == c.state # "complete"
CanClaimAlways(c) == TRUE
CanClaim(c) == c.state = "incomplete"

SingletonClaim(t) ==
    /\ Busy(t)
    /\ Kind(Top(t).ty) \in {"singleton", "singleton_factory"}
    /\ Top(t).pc = "start"
    /\ CanClaim(cell[Top(t).ty])
    /\ cell' = [cell EXCEPT ![Top(t).ty].state = "running"]
    /\ stack' = [stack EXCEPT ![t] = Append(Below(t), [Top(t) EXCEPT !.pc = "init", !.nDeps = @ + 1])]
    /\ getdeps' = [getdeps EXCEPT ![Top(t).ty] = @ + 1]
    /\ UNCHANGED <<provided, instance, scope, ret, nobj, heap, touched, ctor, owner, workload>>

SingletonDep(t) ==
    /\ Busy(t)
    /\ Kind(Top(t).ty) \in {"singleton", "singleton_factory"}
    /\ Top(t).pc = "init"
    /\ Len(Top(t).args) < Len(DepsOf(Top(t).ty))
    /\ PushDep(t, Top(t))
    /\ UNCHANGED <<provided, instance, cell, scope, ret, nobj, heap, touched, ctor, getdeps, owner, workload>>

\* The closure calls the constructor and its value is moved into the cell's slot:
\* from then on the slot is where the value lives.
CellId(ty) == <<0, CASE ty = "ControllerA" -> 11 [] ty = "ControllerF" -> 12 [] OTHER -> 13>>
Stored(ty, obj) == [obj EXCEPT !.id = CellId(ty)]

SingletonConstruct(t) ==
    /\ Busy(t)
    /\ Kind(Top(t).ty) \in {"singleton", "singleton_factory"}
    /\ Top(t).pc = "init"
    /\ Len(Top(t).args) = Len(DepsOf(Top(t).ty))
    /\ cell' = [cell EXCEPT ![Top(t).ty].slot = Stored(Top(t).ty, Construct(t, Top(t).ty, Top(t).args))]
    /\ stack' = [stack EXCEPT ![t] = Append(Below(t), [Top(t) EXCEPT !.pc = "publish", !.nCtor = @ + 1])]
    /\ ctor' = [ctor EXCEPT ![Top(t).ty] = @ + 1]
    /\ UNCHANGED <<provided, instance, scope, ret, nobj, heap, touched, getdeps, owner, workload>>

\* The cell is marked complete, the waiting callers are released, and the
\* initializer returns the reference to the slot.
Published(c) == [c EXCEPT !.state = "complete"]

SingletonPublish(t) ==
    /\ Busy(t)
    /\ Kind(Top(t).ty) \in {"singleton", "singleton_factory"}
    /\ Top(t).pc = "publish"
    /\ cell' = [cell EXCEPT ![Top(t).ty] = Published(@)]
    /\ Return(t, Top(t), ByMode(t, Top(t).mode, Ref(CellLoc(Top(t).ty))))
    /\ nobj' = Cloned(t, Top(t).mode)
    /\ UNCHANGED <<provided, instance, scope, touched, ctor, getdeps, owner, workload>>

\* ConvertContainer::resolve_container: Cont::resolve_container(&self.0, deps) ...
ConvertInner(t) ==
    /\ Busy(t)
    /\ Kind(Top(t).ty) = "convert"
    /\ Top(t).pc = "start"
    /\ stack' = [stack EXCEPT ![t] =
                   Append(Append(Below(t), [Top(t) EXCEPT !.pc = "into"]),
                          Frame(Top(t).r, InnerOf(Top(t).ty), "ref"))]
    /\ UNCHANGED <<provided, instance, cell, scope, ret, nobj, heap, touched, ctor, getdeps, owner, workload>>

\* ... .into()
ConvertInto(t) ==
    /\ Busy(t)
    /\ Kind(Top(t).ty) = "convert"
    /\ Top(t).pc = "into"
    /\ Return(t, Top(t), Into(Top(t).args[1]))
    /\ UNCHANGED <<provided, instance, cell, scope, nobj, touched, ctor, getdeps, owner, workload>>

\* The caller changes the owned value resolve() gave it.
Mutate(t) ==
    /\ ~Busy(t)
    /\ ret[t] # None
    /\ ret[t].val.tag = "obj"
    /\ Kind(ret[t].ty) \in {"transient", "transient_factory"}
    /\ touched[t] = 0
    /\ heap' = [heap EXCEPT ![ret[t].val.id] = @ + 1]
    /\ touched' = [touched EXCEPT ![t] = 1]
    /\ UNCHANGED <<provided, instance, cell, scope, stack, ret, nobj, ctor, getdeps, owner, workload>>

\* ------------------------------------------------------------------ a constructor panics
\* T::init or the body given to a factory is user code and may panic. The panic
\* unwinds the resolve_container calls the thread is inside of, innermost first,
\* up to the caller of resolve(): no frame of the core catches it.
\* The frame fr, being unwound by the panic of the constructor of type `at`.
Unwinding(fr, at) == [at |-> at] @@ [fr EXCEPT !.pc = "unwind", !.args = <<>>]

\* The constructor on top of thread t's stack panics instead of returning a value:
\* T::init(get_deps()) / self.2(get_deps()), after the thunk has returned.
ConstructorPanic(t) ==
    /\ Busy(t)
    /\ \/ Kind(Top(t).ty) \in {"transient", "transient_factory"} /\ Top(t).pc \in {"start", "deps"}
       \/ Kind(Top(t).ty) \in {"singleton", "singleton_factory"} /\ Top(t).pc = "init"
    /\ Len(Top(t).args) = Len(DepsOf(Top(t).ty))
    /\ stack' = [stack EXCEPT ![t] =
                   Append(Below(t),
                          Unwinding(IF Top(t).pc = "init" THEN Top(t) ELSE Invoked(Top(t)), Top(t).ty))]
    /\ UNCHANGED <<provided, instance, cell, scope, ret, nobj, heap, touched, ctor, getdeps, owner, workload>>

\* OnceCell::get_or_init when its closure unwinds: nothing was written to the slot,
\* the cell goes back to incomplete and the callers waiting on it are released to
\* try for themselves.
UnwoundPoisoned(c) == c
Unwound(c) == [state |-> "incomplete", slot |-> None]

\* What the caller of resolve() gets of a call that panicked: the panic, no value.
Panicked(fr) ==
    [tag |-> "panic", r |-> fr.r, ty |-> fr.ty, mode |-> fr.mode, val |-> None,
     nDeps |-> fr.nDeps, nCtor |-> fr.nCtor, at |-> fr.at]

\* The panic leaves the resolve_container call on top of the stack: a singleton's
\* cell is released (its closure's thunk invocation was of the failed attempt and
\* is forgotten with it), and the panic goes on in the call below, or reaches the
\* caller of resolve().
Unwind(t) ==
    /\ Busy(t)
    /\ Top(t).pc = "unwind"
    /\ IF Kind(Top(t).ty) \in {"singleton", "singleton_factory"}
       THEN /\ cell' = [cell EXCEPT ![Top(t).ty] = Unwound(@)]
            /\ getdeps' = [getdeps EXCEPT ![Top(t).ty] = 0]
       ELSE UNCHANGED <<cell, getdeps>>
    /\ IF Below(t) = <<>>
       THEN /\ stack' = [stack EXCEPT ![t] = <<>>]
            /\ ret' = [ret EXCEPT ![t] = Panicked(Top(t))]
       ELSE /\ stack' = [stack EXCEPT ![t] =
                           Append(SubSeq(Below(t), 1, Len(Below(t)) - 1),
                                  Unwinding(Below(t)[Len(Below(t))], Top(t).at))]
            /\ UNCHANGED ret
    /\ UNCHANGED <<provided, instance, scope, nobj, heap, touched, ctor, owner, workload>>

Step(t) ==
    \/ Begin(t)
    \/ ResolveInstance(t)
    \/ TransientDep(t)
    \/ TransientConstruct(t)
    \/ SingletonGet(t)
    \/ SingletonClaim(t)
    \/ SingletonDep(t)
    \/ SingletonConstruct(t)
    \/ SingletonPublish(t)
    \/ ConvertInner(t)
    \/ ConvertInto(t)

Next ==
    \/ \E t \in Threads : Fork(t)
    \/ \E t \in Threads : DropScope(t)
    \/ \E t \in Threads : Step(t)
    \/ \E t \in Threads : Mutate(t)

Spec == Init /\ [][Next]_vars

\* The program with constructors that may panic.
PanicNext ==
    \/ Next
    \/ \E t \in Threads : ConstructorPanic(t)
    \/ \E t \in Threads : Unwind(t)

PanicSpec == Init /\ [][PanicNext]_vars

\* A thread inside resolve() keeps running: the steps of a call in progress are
\* taken when they stay possible.
Resolve(t) ==
    \/ ResolveInstance(t)
    \/ TransientDep(t)
    \/ TransientConstruct(t)
    \/ SingletonGet(t)
    \/ SingletonClaim(t)
    \/ SingletonDep(t)
    \/ SingletonConstruct(t)
    \/ SingletonPublish(t)
    \/ ConvertInner(t)
    \/ ConvertInto(t)

\* The threads resolving from the shared root registry alone, each of them running
\* on once it has entered resolve().
ResolveNext == \E t \in Threads : Step(t)

FairSpec == Init /\ [][ResolveNext]_vars /\ \A t \in Threads : WF_vars(Resolve(t))

\* ================================================================== Part III
\* Factory::call, lines 170-173: the fork is built, boxed, and the box is turned
\* into the raw pointer `ptr`.
CallBox(t) ==
    /\ owner[t].pc = "idle"
    /\ owner' = [owner EXCEPT ![t] = [@ EXCEPT !.pc = "boxed", !.sp = "live"]]
    /\ UNCHANGED regVars

\* SpFuture::new, lines 101-104: the owner is pinned with a dangling `fut`.
NewPin(t) ==
    /\ owner[t].pc = "boxed"
    /\ owner' = [owner EXCEPT ![t] = [@ EXCEPT !.pc = "closure", !.futPtr = "dangling"]]
    /\ UNCHANGED regVars

\* SpFuture::new, lines 105-110: the closure returns the computation, which is boxed
\* and leaked; its pointer is stored in `fut` and the owner is returned.
NewStore(t) ==
    /\ owner[t].pc = "closure"
    /\ owner' = [owner EXCEPT ![t] = [@ EXCEPT !.pc = "held", !.fut = "live", !.futPtr = "set",
                                                !.made = TRUE]]
    /\ UNCHANGED regVars

\* SpFuture::new, line 105: the closure (self.f.clone()) panics: `this` is dropped by
\* the unwinding, with `fut` still dangling.
NewUnwind(t) ==
    /\ owner[t].pc = "closure"
    /\ owner' = [owner EXCEPT ![t] = [@ EXCEPT !.pc = "drop", !.step = 1]]
    /\ UNCHANGED regVars

\* Future::poll, lines 133-141, and the async block of call(), lines 177-183: the
\* first poll takes `sp` as a reference and resolves the handler's arguments from it;
\* the handler's future is then pending or ready. When it is ready the block has
\* ended and its borrows with it.
Poll(t) ==
    /\ owner[t].pc = "held"
    /\ owner[t].polled # "ready"
    /\ \E res \in {"pending", "ready"} :
         owner' = [owner EXCEPT ![t] = [@ EXCEPT !.polled = res,
                                                  !.borrows = (res = "pending"),
                                                  !.uaf = @ \/ owner[t].sp # "live"]]
    /\ UNCHANGED regVars

\* The host drops the owner: after the computation completed, or to cancel it,
\* polled or not.
DropOwner(t) ==
    /\ owner[t].pc = "held"
    /\ owner' = [owner EXCEPT ![t] = [@ EXCEPT !.pc = "drop", !.step = 1]]
    /\ UNCHANGED regVars

\* PinnedDrop::drop, lines 119-122, in the order of the statements.
DropSeqSwapped == <<"drop_sp", "free_sp", "drop_fut", "free_fut">>
DropSeqLeak == <<"drop_fut", "drop_sp", "free_sp">>
DropSeq == <<"drop_fut", "free_fut", "drop_sp", "free_sp">>

\* One statement of PinnedDrop::drop on the owner o.
\* drop_in_place(self.fut.as_ptr()): the destructor of the computation runs; it
\* releases the references the computation holds into the registry.
DropFut(o) ==
    [o EXCEPT !.fut = "dropped", !.futDrops = @ + 1, !.borrows = FALSE,
              !.uaf = @ \/ (o.borrows /\ o.sp # "live")]
\* dealloc(self.fut.as_ptr() ..)
FreeFut(o) == [o EXCEPT !.fut = "freed", !.futFrees = @ + 1]
\* drop_in_place(self.sp): the destructor of the forked registry runs.
DropSp(o) == [o EXCEPT !.sp = "dropped", !.spDrops = @ + 1]
\* dealloc(self.sp ..)
FreeSp(o) == [o EXCEPT !.sp = "freed", !.spFrees = @ + 1]

Statement(o, st) ==
    CASE st = "drop_fut" -> DropFut(o)
      [] st = "free_fut" -> FreeFut(o)
      [] st = "drop_sp" -> DropSp(o)
      [] st = "free_sp" -> FreeSp(o)

Advance(o) ==
    IF o.step = Len(DropSeq) THEN [o EXCEPT !.pc = "gone", !.step = 0] ELSE [o EXCEPT !.step = @ + 1]

\* A statement on a pointer `fut` that points to the computation, or on `sp`.
DropStep(t) ==
    /\ owner[t].pc = "drop"
    /\ owner[t].futPtr = "set" \/ DropSeq[owner[t].step] \in {"drop_sp", "free_sp"}
    /\ owner' = [owner EXCEPT ![t] = Advance(Statement(@, DropSeq[owner[t].step]))]
    /\ UNCHANGED regVars

\* drop_in_place / dealloc on the dangling `fut`: undefined behaviour. The process
\* is stopped by the fault, or the statement passes without effect.
DropDangling(t) ==
    /\ owner[t].pc = "drop"
    /\ owner[t].futPtr = "dangling"
    /\ DropSeq[owner[t].step] \in {"drop_fut", "free_fut"}
    /\ \/ owner' = [owner EXCEPT ![t] = [@ EXCEPT !.pc = "fault"]]
       \/ owner' = [owner EXCEPT ![t] = Advance(@)]
    /\ UNCHANGED regVars

OwnerNext ==
    \/ \E t \in Threads : CallBox(t)
    \/ \E t \in Threads : NewPin(t)
    \/ \E t \in Threads : NewStore(t)
    \/ \E t \in Threads : NewUnwind(t)
    \/ \E t \in Threads : Poll(t)
    \/ \E t \in Threads : DropOwner(t)
    \/ \E t \in Threads : DropStep(t)
    \/ \E t \in Threads : DropDangling(t)

OwnerSpec == Init /\ [][OwnerNext]_vars

\* ================================================================== claims
SingletonKinds == {"singleton", "singleton_factory"}
TransientKinds == {"transient", "transient_factory"}
Returned(t) == ret[t] # None

\* C1: under concurrent first-time resolutions of a singleton (or singleton
\* factory) the constructor runs once: a cell is never constructed twice, a cell
\* that is complete or being published was constructed exactly once, and every
\* caller that returned got the one value of the completed cell, never an empty or
\* unpublished slot.
C1_OnceInit ==
    /\ \A ty \in CellTypes :
         /\ ctor[ty] <= 1
         /\ getdeps[ty] <= 1
         /\ cell[ty].state = "complete" => ctor[ty] = 1 /\ cell[ty].slot # None
         /\ cell[ty].slot # None => ctor[ty] = 1
    /\ \A t \in Threads :
         Returned(t) /\ Kind(ret[t].ty) \in SingletonKinds =>
           /\ cell[ret[t].ty].state = "complete"
           /\ ctor[ret[t].ty] = 1
           /\ ret[t].val.tag \in {"ref", "obj"}
           /\ Content(Deref(ret[t].val)) = Content(cell[ret[t].ty].slot)
           /\ Content(Deref(ret[t].val)).ty = ret[t].ty

\* Two callers are inside the first resolution of one cell at once: one has run
\* the constructor and is about to publish, the other waits at get_or_init.
C1_Witness ==
    \E t1, t2 \in Threads : \E ty \in CellTypes :
       /\ t1 # t2
       /\ Busy(t1) /\ Top(t1).ty = ty /\ Top(t1).pc = "publish"
       /\ Busy(t2) /\ Top(t2).ty = ty /\ Top(t2).pc = "start"
       /\ ctor[ty] = 1

\* What the resolutions of a singleton returned: the reference to the cell's slot,
\* or a copy (another object) equal to the stored value.
C2_Results ==
    \A t \in Threads :
       Returned(t) /\ Kind(ret[t].ty) \in SingletonKinds =>
         /\ ret[t].mode = "ref" => ret[t].val = Ref(CellLoc(ret[t].ty))
         /\ ret[t].mode = "val" =>
              /\ ret[t].val.tag = "obj"
              /\ ret[t].val.id # cell[ret[t].ty].slot.id
              /\ Content(ret[t].val) = Content(cell[ret[t].ty].slot)
         /\ ret[t].nCtor = ret[t].nDeps
         /\ ret[t].nCtor <= ctor[ret[t].ty]

\* C2: a singleton's cell is written at most once (a slot that holds a value and a
\* cell that is complete never change again, and the constructor count stays 1),
\* every by-reference resolution returns the reference to the cell's slot, and
\* every by-value resolution a copy equal to the stored value, which the call did
\* not construct unless it was the one initialization.
C2_WriteOnce ==
    /\ []C2_Results
    /\ [][\A ty \in CellTypes :
            /\ cell[ty].slot # None => cell'[ty].slot = cell[ty].slot
            /\ cell[ty].state = "complete" => cell'[ty] = cell[ty]
            /\ ctor[ty] = 1 => ctor'[ty] = 1]_vars

\* Two callers hold results of one singleton, one by reference and one by value,
\* and neither of the two calls was the one that constructed it.
C2_Witness ==
    \E t1, t2 \in Threads :
       /\ Returned(t1) /\ Returned(t2)
       /\ ret[t1].ty = ret[t2].ty /\ Kind(ret[t1].ty) = "singleton_factory"
       /\ ret[t1].mode = "ref" /\ ret[t2].mode = "val"
       /\ ret[t1].nCtor = 0 /\ ret[t2].nCtor = 0

\* The value a resolution of a transient type has to build (ControllerB is
\* #[init(1, 5)]; SchemaB holds the ControllerB it was given).
IsControllerB(v) == v.tag = "obj" /\ Content(v) = [ty |-> "ControllerB", fields |-> <<1, 5>>]

\* C3: every resolution of a transient type invoked the thunk once and the
\* constructor once and returned the value it built; the values callers hold at
\* the same time are distinct objects, and each is changed only by its holder.
C3_Transient ==
    \A t \in Threads :
       Returned(t) /\ Kind(ret[t].ty) \in TransientKinds =>
         /\ ret[t].nDeps = 1 /\ ret[t].nCtor = 1
         /\ ret[t].val.tag = "obj" /\ ret[t].val.ty = ret[t].ty
         /\ ret[t].ty = "ControllerB" => IsControllerB(ret[t].val)
         /\ ret[t].val.id \in DOMAIN heap
         /\ heap[ret[t].val.id] = touched[t]
         /\ \A u \in Threads \ {t} :
              Returned(u) /\ ret[u].val.tag = "obj" => ret[u].val.id # ret[t].val.id

\* Two callers hold a value of the same transient type; one has changed its own.
C3_Witness ==
    \E t1, t2 \in Threads :
       /\ t1 # t2 /\ Returned(t1) /\ Returned(t2)
       /\ ret[t1].ty = "ControllerB" /\ ret[t2].ty = "ControllerB"
       /\ touched[t1] = 1 /\ touched[t2] = 0

\* The registry whose InstanceContainer answers for ty when asked through r.
Owner(r, ty) == IF ty \in provided[r] THEN r ELSE Root

\* What the resolutions of an instance returned, and what the singleton that
\* depends on ConstService was built from.
C4_Results ==
    /\ \A t \in Threads :
         Returned(t) /\ Kind(ret[t].ty) = "instance" =>
           /\ ret[t].nDeps = 0 /\ ret[t].nCtor = 0
           /\ ret[t].mode = "ref" => ret[t].val = Ref(<<"inst", Owner(ret[t].r, ret[t].ty), ret[t].ty>>)
           /\ ret[t].mode = "val" =>
                /\ ret[t].val.tag = "obj"
                /\ ret[t].val.id # instance[<<Owner(ret[t].r, ret[t].ty), ret[t].ty>>].id
                /\ Content(ret[t].val) = Content(instance[<<Owner(ret[t].r, ret[t].ty), ret[t].ty>>])
    /\ cell["ControllerA"].slot # None =>
         /\ cell["ControllerA"].slot.fields = <<Ref(<<"inst", Root, "ConstService">>)>>
         /\ Deref(cell["ControllerA"].slot.fields[1]).fields = <<10, 8>>

\* C4: a resolution of an add_instance type invokes no thunk and no constructor; by
\* reference it returns the reference to the registered value itself, by value a
\* copy equal in content; no resolution step changes a registered value; and the
\* singleton that depends on ConstService holds the reference to the registered one.
C4_Instance ==
    /\ []C4_Results
    /\ [][(\E t \in Threads : Step(t)) => instance' = instance]_vars

\* A caller holds a copy of ConstService while the singleton that depends on it
\* has been constructed.
C4_Witness ==
    \E t \in Threads :
       /\ Returned(t) /\ ret[t].ty = "ConstService" /\ ret[t].mode = "val"
       /\ cell["ControllerA"].state = "complete"

\* C5: a resolution through the ConvertContainer returns convert(v) for the v its
\* inner singleton container returns (the reference to the inner cell's slot), and
\* its thunk and constructor invocations are those of the inner container: one
\* each for the call that initialized the inner cell, none for any other, one in
\* total.
C5_Convert ==
    /\ \A t \in Threads :
         Returned(t) /\ Kind(ret[t].ty) = "convert" =>
           /\ ret[t].val = [tag |-> "conv", ty |-> ret[t].ty, of |-> Ref(<<"cell", Root, "Impl">>)]
           /\ cell[InnerOf(ret[t].ty)].state = "complete"
           /\ ret[t].nCtor \in {0, 1} /\ ret[t].nDeps = ret[t].nCtor
           /\ ctor[InnerOf(ret[t].ty)] = 1 /\ getdeps[InnerOf(ret[t].ty)] = 1
    /\ \A t1, t2 \in Threads :
         /\ t1 # t2
         /\ Returned(t1) /\ Kind(ret[t1].ty) = "convert"
         /\ Returned(t2) /\ Kind(ret[t2].ty) = "convert"
         => ret[t1].nCtor + ret[t2].nCtor <= 1
    /\ \A t \in Threads : \A i \in 1..Len(stack[t]) :
         Kind(stack[t][i].ty) = "convert" /\ stack[t][i].args # <<>> =>
           /\ stack[t][i].args = <<Ref(CellLoc(InnerOf(stack[t][i].ty)))>>
           /\ stack[t][i].nCtor = stack[t][i].nDeps

\* Two callers resolved through the ConvertContainer; one of the calls
\* initialized the inner cell.
C5_Witness ==
    \E t1, t2 \in Threads :
       /\ Returned(t1) /\ Returned(t2)
       /\ ret[t1].ty = "Iface" /\ ret[t2].ty = "Iface"
       /\ ret[t1].nCtor = 1 /\ ret[t2].nCtor = 0

\* C6: a resolution of the type of add_transient_factory(f) returns f(d) for the
\* dependency tuple d resolved at that call: f was invoked once, the value holds
\* the ControllerB of that call, and it equals f applied by hand to a ControllerB
\* another caller resolved on its own.
C6_Factory ==
    \A t \in Threads :
       Returned(t) /\ ret[t].ty = "SchemaB" =>
         /\ ret[t].nCtor = 1 /\ ret[t].nDeps = 1
         /\ ret[t].val.tag = "obj"
         /\ Len(ret[t].val.fields) = 1
         /\ IsControllerB(ret[t].val.fields[1])
         /\ \A u \in Threads :
              Returned(u) /\ ret[u].ty = "ControllerB" =>
                /\ Content(ret[t].val.fields[1]) = Content(ret[u].val)
                /\ ret[t].val.fields[1].id # ret[u].val.id

\* One caller holds the factory's SchemaB, another a ControllerB of its own.
C6_Witness ==
    \E t1, t2 \in Threads :
       /\ Returned(t1) /\ ret[t1].ty = "SchemaB"
       /\ Returned(t2) /\ ret[t2].ty = "ControllerB"

\* What the resolutions of Settings returned, by the registry they went through.
C8_Results ==
    \A t \in Threads :
       Returned(t) /\ ret[t].ty = "Settings" =>
         /\ Len(Deref(ret[t].val).fields) = 1
         /\ IF ret[t].r # Root /\ "Settings" \in provided[ret[t].r]
            THEN /\ Deref(ret[t].val).fields[1] \in ShadowData
                 /\ ret[t].mode = "ref" => ret[t].val.loc = <<"inst", ret[t].r, "Settings">>
            ELSE /\ Deref(ret[t].val).fields[1] \in RootData
                 /\ ret[t].mode = "ref" => ret[t].val.loc = <<"inst", Root, "Settings">>

\* C8: no step (a fork and its scope factory included) changes the root
\* registry's providers or its registered values; a resolution of Settings through
\* a fork that registered its own returns the fork's value, and one through the
\* root or through a fork that did not returns the root's.
C8_Fork ==
    /\ []C8_Results
    /\ [][/\ provided'[Root] = provided[Root]
          /\ \A ty \in InstTypes : instance'[<<Root, ty>>] = instance[<<Root, ty>>]]_vars

\* Two forks are live at once, one with its own Settings and one without; each
\* resolved Settings through its fork.
C8_Witness ==
    \E t1, t2 \in Threads :
       /\ scope[t1].live /\ scope[t2].live
       /\ "Settings" \in provided[t1] /\ "Settings" \notin provided[t2]
       /\ Returned(t1) /\ ret[t1].ty = "Settings" /\ ret[t1].r = t1
       /\ Returned(t2) /\ ret[t2].ty = "Settings" /\ ret[t2].r = t2

\* C9: every resolve() call returns: a thread that is inside a call, also one
\* inside the initializer of a cell or waiting for a cell another thread
\* initializes, is eventually outside of it.
C9_Returns == \A t \in Threads : Busy(t) ~> ~Busy(t)

\* A thread initializes ControllerF and, inside its initializer, waits for
\* ControllerA, which another thread is initializing.
C9_Witness ==
    \E t1, t2 \in Threads :
       /\ t1 # t2
       /\ Len(stack[t1]) = 2
       /\ stack[t1][1].ty = "ControllerF" /\ stack[t1][1].pc = "init"
       /\ stack[t1][2].ty = "ControllerA" /\ stack[t1][2].pc = "start"
       /\ Busy(t2) /\ Top(t2).ty = "ControllerA" /\ Top(t2).pc \in {"init", "publish"}
       /\ Len(stack[t2]) = 1

\* ------------------------------------------------------------------ SpFuture
Made(t) == owner[t].made
Destroyed(x) == x \in {"dropped", "freed"}

\* C7: in every teardown of an SpFuture the computation is destroyed before the
\* forked registry: the registry is never destroyed or freed while the computation
\* exists, the registry is never used after its destruction, and when the
\* registry's destructor has run the computation's has run and its box is freed.
C7_Order ==
    \A t \in Threads :
       /\ ~owner[t].uaf
       /\ Destroyed(owner[t].sp) => owner[t].fut # "live" /\ ~owner[t].borrows
       /\ Made(t) /\ owner[t].spDrops > 0 => owner[t].futDrops = 1 /\ owner[t].fut = "freed"

\* Two owners were torn down, one that was polled and still pending and one that
\* was never polled.
C7_Witness ==
    \E t1, t2 \in Threads :
       /\ Made(t1) /\ owner[t1].pc = "gone" /\ owner[t1].polled = "pending"
       /\ Made(t2) /\ owner[t2].pc = "gone" /\ owner[t2].polled = "no"

\* C10: for every owner the handler call returned, the teardown destroys and frees
\* each of the two allocations exactly once: no destructor and no deallocation
\* runs twice, each deallocation follows its destructor, the teardown never
\* faults, and when it has ended both allocations are destroyed and freed.
C10_ExactlyOnce ==
    \A t \in Threads :
       Made(t) =>
         /\ owner[t].pc \in {"held", "drop", "gone"}
         /\ owner[t].spDrops <= 1 /\ owner[t].spFrees <= owner[t].spDrops
         /\ owner[t].futDrops <= 1 /\ owner[t].futFrees <= owner[t].futDrops
         /\ owner[t].pc = "held" => owner[t].sp = "live" /\ owner[t].fut = "live"
         /\ owner[t].pc = "gone" =>
              /\ owner[t].spDrops = 1 /\ owner[t].spFrees = 1
              /\ owner[t].futDrops = 1 /\ owner[t].futFrees = 1
              /\ owner[t].sp = "freed" /\ owner[t].fut = "freed"

\* One owner was torn down after its computation completed, another after it was
\* cancelled while pending.
C10_Witness ==
    \E t1, t2 \in Threads :
       /\ Made(t1) /\ owner[t1].pc = "gone" /\ owner[t1].polled = "ready"
       /\ Made(t2) /\ owner[t2].pc = "gone" /\ owner[t2].polled = "pending"

\* ------------------------------------------------------------------ C11
Panic(t) == ret[t] # None /\ ret[t].tag = "panic"
\* Thread t is the initializer of cell ty: inside its get_or_init closure, or
\* leaving it.
Initializer(t, ty) ==
    \E i \in 1..Len(stack[t]) : stack[t][i].ty = ty /\ stack[t][i].pc \in {"init", "publish", "unwind"}
UnwindingNow(t) == Busy(t) /\ Top(t).pc = "unwind"

\* What holds of the cells at any time, constructors panicking or not.
C11_Cells ==
    /\ \A t \in Threads : Panic(t) => ~Busy(t) /\ ret[t].val = None
    /\ \A ty \in CellTypes :
         /\ ctor[ty] <= 1
         /\ cell[ty].state = "running" => \E t \in Threads : Initializer(t, ty)
         /\ cell[ty].state = "complete" => cell[ty].slot # None /\ ctor[ty] = 1
         /\ cell[ty].slot # None => ctor[ty] = 1
         /\ ctor[ty] = 0 /\ (\A t \in Threads : ~Initializer(t, ty)) => cell[ty] = EmptyCell

\* What a step of a panic's way up does.
C11_Unwinds(t) ==
    UnwindingNow(t) /\ stack'[t] # stack[t] =>
       /\ ctor' = ctor
       /\ Kind(Top(t).ty) \in SingletonKinds => cell'[Top(t).ty] = EmptyCell
       /\ IF Len(stack[t]) = 1
          THEN /\ stack'[t] = <<>>
               /\ ret'[t] # None /\ ret'[t].tag = "panic" /\ ret'[t].val = None
               /\ ret'[t].ty = Top(t).ty /\ ret'[t].at = Top(t).at
          ELSE /\ Len(stack'[t]) = Len(stack[t]) - 1
               /\ stack'[t][Len(stack'[t])].pc = "unwind"
               /\ stack'[t][Len(stack'[t])].at = Top(t).at
               /\ ret'[t] = None

\* A resolve() of a singleton that returns a value returns the value of a cell
\* completed by a constructor that ran to its end.
C11_Returns(t) ==
    ret[t] = None /\ ret'[t] # None /\ ret'[t].tag = "ret" /\ Kind(ret'[t].ty) \in SingletonKinds =>
       /\ cell'[ret'[t].ty].state = "complete"
       /\ ctor'[ret'[t].ty] = 1
       /\ Content(Deref(ret'[t].val)) = Content(cell[ret'[t].ty].slot)

\* C11: a constructor's panic during resolve is propagated to the caller of resolve
\* and not masked: every call the panic passes on its way up is left by unwinding,
\* none returns a value in its place, and the caller gets the panic and no value.
\* A singleton cell whose constructor (or a constructor below it) panicked is left
\* empty and unclaimed: the failed attempt is not counted as the initialization, no
\* cell stays claimed without an initializer, and a value is only ever returned from
\* a cell whose constructor completed, so a later resolve runs the constructor again.
C11_PanicPropagates ==
    /\ []C11_Cells
    /\ [][\A t \in Threads : C11_Unwinds(t) /\ C11_Returns(t)]_vars

\* The constructor of a singleton panicked in one caller's resolve, which got the
\* panic; another caller's resolve then ran the constructor again, to its end, and
\* got the value.
C11_Witness ==
    \E t1, t2 \in Threads :
       /\ Panic(t1) /\ Kind(ret[t1].at) \in SingletonKinds
       /\ ret[t2] # None /\ ret[t2].tag = "ret" /\ ret[t2].ty = ret[t1].at /\ ret[t2].nCtor = 1
       /\ cell[ret[t1].at].state = "complete"

\* ------------------------------------------------------------------ C12
\* C12: whenever PinnedDrop::drop of an owner can run, its `fut` points to a live,
\* fully created computation allocation: drop never starts on an owner whose `fut`
\* is still the dangling placeholder of SpFuture::new, and never destroys or frees
\* through it, also when the closure that builds the computation panics.
C12_NeverDangling ==
    \A t \in Threads :
       /\ owner[t].pc = "drop" /\ owner[t].step = 1 =>
            owner[t].futPtr = "set" /\ owner[t].fut = "live"
       /\ owner[t].pc = "drop" => owner[t].futPtr # "dangling"
       /\ owner[t].pc # "fault"

====
